---- MODULE Spec2Model ----
(***************************************************************************)
(* A model of the logging facade of package log (log.go, severity.go):     *)
(* the process-wide registry `loggers`, the two initialisation entry       *)
(* points, NewLogger's dispatch, the four emission functions with          *)
(* writeMessage, and the severity <-> name conversions.                    *)
(*                                                                         *)
(* Go strings that the code only compares or passes on are TLA+ strings;   *)
(* strings the code transforms (a severity name, through strings.ToUpper)  *)
(* are sequences of one-character strings; a formatted text is the         *)
(* sequence of its fragments.                                              *)
(***************************************************************************)
EXTENDS Integers, Sequences, FiniteSets, TLC

\* ------------------------------------------------------------------ bounds

\* The registry never grows past MaxLoggers entries (guards of the init calls).
MaxLoggers == 3
\* Longest configuration list of one InitWithConfig call.
MaxConfigs == 2
\* Most Init calls the goroutines begin between them.
MaxConcInits == 3

\* ------------------------------------------------------------- severity.go

\* nil as a writer; the nil error (an error is the text of its message).
Nil == "nil"
NoError == <<>>

SeverityDebug == 0
SeverityInfo == 1
SeverityWarning == 2
SeverityError == 3
\* log.go names SeverityWarn and SeverityFatal, which severity.go does not
\* declare: WARN is ordinal 2 and FATAL follows ERROR.
SeverityWarn == 2
SeverityFatal == 4

DefinedSeverities == {SeverityDebug, SeverityInfo, SeverityWarning, SeverityError}
DispatchSeverities == {SeverityInfo, SeverityWarn, SeverityError, SeverityFatal}
AllSeverities == DefinedSeverities \cup DispatchSeverities

severityNames ==
  << <<"D", "E", "B", "U", "G">>, <<"I", "N", "F", "O">>,
     <<"W", "A", "R", "N">>, <<"E", "R", "R", "O", "R">> >>

\* unicode.ToUpper on the letters the inputs are made of; any other character
\* is left as it is.
Lowers == <<"a", "b", "c", "d", "e", "f", "g", "i", "l", "n", "o", "r", "t", "u", "w">>
Uppers == <<"A", "B", "C", "D", "E", "F", "G", "I", "L", "N", "O", "R", "T", "U", "W">>

ToUpperRune(c) ==
  IF \E k \in 1..Len(Lowers) : Lowers[k] = c
  THEN Uppers[CHOOSE k \in 1..Len(Lowers) : Lowers[k] = c]
  ELSE c

ToLowerRune(c) ==
  IF \E k \in 1..Len(Uppers) : Uppers[k] = c
  THEN Lowers[CHOOSE k \in 1..Len(Uppers) : Uppers[k] = c]
  ELSE c

\* strings.ToUpper
ToUpper(s) == [i \in 1..Len(s) |-> ToUpperRune(s[i])]

\* Severity.String: severityNames[s]; an index outside the slice panics.
SeverityString(s) ==
  IF s \in 0..(Len(severityNames) - 1)
  THEN [str |-> severityNames[s + 1], panic |-> FALSE]
  ELSE [str |-> <<>>, panic |-> TRUE]

\* The loop of severityFromString over severityNames, from index idx (0-based).
RECURSIVE ScanNames(_, _)
ScanNames(s, idx) ==
  IF idx >= Len(severityNames)
  THEN [sev |-> -1, err |-> <<"unsupported severity: ">> \o s]
  ELSE IF severityNames[idx + 1] = s
       THEN [sev |-> idx, err |-> NoError]
       ELSE ScanNames(s, idx + 1)

\* A variant of severityFromString that compares the name as it was given.
severityFromStringCaseSensitive(s) == ScanNames(s, 0)

severityFromString(s) == ScanNames(ToUpper(s), 0)

\* ------------------------------------------------------------------ log.go

VARIABLES
  loggers,   \* the package variable `loggers`: a slice header [ptr, len, cap]
  heap,      \* the backing arrays ever allocated for `loggers`, by address
  message,   \* the package variable `message` that writeMessage assigns
  exit,      \* "running", or how the process ended
  op,        \* the most recent call of the package's API and its inputs
  ret,       \* what that call returned
  pre,       \* the registry as it was when that call began
  calls,     \* the calls that call made on its collaborators, in order
  pc,        \* where each goroutine stands in the call it is running
  lc,        \* each goroutine's call: its arguments, locals and what it did
  inits      \* how many Init calls goroutines have begun

seqVars == <<op, ret, pre, calls>>
concVars == <<pc, lc, inits>>

\* A Logger value: an implementation of the Logger interface, given by its
\* name and by what its Writer method answers for each severity.
Sink(id, accepts) ==
  [id |-> id, writer |-> [s \in AllSeverities |-> IF s \in accepts THEN id ELSE Nil]]

\* The nil Logger: the zero value of a slot of the slice, and what NewLogger
\* returns beside an error.
NilLogger == [id |-> Nil, writer |-> [s \in AllSeverities |-> Nil]]

\* Logger implementations the application hands to Init: one that has a
\* destination for every severity, and one that takes only WARN and ERROR
\* (no destination for INFO, none for FATAL). The application passes no nil
\* Logger.
UserLoggers ==
  { Sink("bufA", AllSeverities), Sink("bufQ", {SeverityWarn, SeverityError}) }

\* logger.Writer(sev)
Writer(logger, sev) == logger.writer[sev]

\* logger.FormatMessage(...): the implementation's own layout of what it is given.
FormatMessage(logger, sev, fileName, funcName, lineNo, format, args) ==
  <<logger.id, sev, fileName, funcName, lineNo, format, args>>

\* LogConfig.String: fmt.Sprintf("LogConfig(Name=%v, Severity=%v)", ...)
LogConfigString(c) ==
  <<"LogConfig(Name=", c.Name, ", Severity=">> \o c.Severity \o <<")">>

\* A backend as its constructor builds it: it owns one destination and answers
\* no writer below its configured minimum severity.
Backend(name, dest, min) ==
  [id |-> name, writer |-> [s \in AllSeverities |-> IF s >= min THEN dest ELSE Nil]]

\* The three backend constructors: each parses the configured minimum
\* severity, and fails with the parse error when there is one.
Construct(name, dest, config) ==
  LET p == severityFromString(config.Severity)
  IN IF p.err # NoError THEN [logger |-> NilLogger, err |-> p.err]
     ELSE [logger |-> Backend(name, dest, p.sev), err |-> NoError]

NewConsoleLogger(config) == Construct("console", "stderr", config)
NewSysLogger(config) == Construct("syslog", "syslogd", config)
NewUDPLogger(config) == Construct("udplog", "udp", config)

\* A variant of NewLogger whose "udplog" case builds a syslog backend.
NewLoggerWrongCase(config) ==
  CASE config.Name = "console" ->
         NewConsoleLogger(config)
           @@ [ctor |-> <<[call |-> "NewConsoleLogger", config |-> config]>>]
    [] config.Name \in {"syslog", "udplog"} ->
         NewSysLogger(config)
           @@ [ctor |-> <<[call |-> "NewSysLogger", config |-> config]>>]
    [] OTHER ->
         [logger |-> NilLogger, err |-> <<"unknown logger: ">> \o LogConfigString(config),
          ctor |-> <<>>]

\* NewLogger: the switch on config.Name. `ctor` records the constructor it
\* invoked, with the configuration it passed.
NewLogger(config) ==
  CASE config.Name = "console" ->
         NewConsoleLogger(config)
           @@ [ctor |-> <<[call |-> "NewConsoleLogger", config |-> config]>>]
    [] config.Name = "syslog" ->
         NewSysLogger(config)
           @@ [ctor |-> <<[call |-> "NewSysLogger", config |-> config]>>]
    [] config.Name = "udplog" ->
         NewUDPLogger(config)
           @@ [ctor |-> <<[call |-> "NewUDPLogger", config |-> config]>>]
    [] OTHER ->
         [logger |-> NilLogger, err |-> <<"unknown logger: ">> \o LogConfigString(config),
          ctor |-> <<>>]

\* The slot i of the array at ptr; NilLogger stands for what lies outside it.
InBounds(mem, ptr, i) == ptr \in 1..Len(mem) /\ i \in 1..Len(mem[ptr])
SlotOf(mem, ptr, i) == IF InBounds(mem, ptr, i) THEN mem[ptr][i] ELSE NilLogger

\* The registry: the sequence of Logger values the slice `loggers` denotes.
SliceOf(hdr, mem) == [i \in 1..hdr.len |-> SlotOf(mem, hdr.ptr, i)]
Registry == SliceOf(loggers, heap)

\* runtime.growslice for one more element: a nil slice gets capacity 1, a full
\* one twice its capacity.
GrowCap(cap) == IF cap = 0 THEN 1 ELSE 2 * cap

\* append(s, x) on the slice m.hdr over the memory m.heap: in place when the
\* capacity allows, else into a new array holding a copy of the elements.
AppendSlice(m, x) ==
  IF m.hdr.len < m.hdr.cap
  THEN [hdr |-> [m.hdr EXCEPT !.len = @ + 1],
        heap |-> [m.heap EXCEPT ![m.hdr.ptr][m.hdr.len + 1] = x]]
  ELSE LET n == GrowCap(m.hdr.cap)
           arr == [i \in 1..n |->
                     IF i <= m.hdr.len THEN m.heap[m.hdr.ptr][i]
                     ELSE IF i = m.hdr.len + 1 THEN x ELSE NilLogger]
       IN [hdr |-> [ptr |-> Len(m.heap) + 1, len |-> m.hdr.len + 1, cap |-> n],
           heap |-> Append(m.heap, arr)]

\* A variant of Init's loop that starts from an empty slice, as
\* `loggers = l` would.
RECURSIVE InitLoopFresh(_, _, _)
InitLoopFresh(m, l, k) ==
  IF k > Len(l) THEN m
  ELSE InitLoopFresh(
         AppendSlice(IF k = 1 THEN [m EXCEPT !.hdr = [ptr |-> 0, len |-> 0, cap |-> 0]]
                     ELSE m, l[k]), l, k + 1)

\* The loop of Init: loggers = append(loggers, logger) for each argument.
RECURSIVE InitLoop(_, _, _)
InitLoop(m, l, k) ==
  IF k > Len(l) THEN m ELSE InitLoop(AppendSlice(m, l[k]), l, k + 1)

\* A variant of InitWithConfig's loop that skips a configuration NewLogger
\* rejects and goes on, returning the first error at the end.
RECURSIVE ConfigLoopContinue(_, _, _)
ConfigLoopContinue(m, logConfigs, k) ==
  IF k > Len(logConfigs) THEN [mem |-> m, err |-> NoError, calls |-> <<>>]
  ELSE LET r == NewLogger(logConfigs[k])
           rest == ConfigLoopContinue(
                     IF r.err # NoError THEN m ELSE AppendSlice(m, r.logger),
                     logConfigs, k + 1)
       IN [rest EXCEPT !.calls = r.ctor \o @,
                       !.err = IF r.err # NoError THEN r.err ELSE @]

\* The loop of InitWithConfig from the k-th configuration on: the first error
\* of NewLogger ends it.
RECURSIVE ConfigLoop(_, _, _)
ConfigLoop(m, logConfigs, k) ==
  IF k > Len(logConfigs) THEN [mem |-> m, err |-> NoError, calls |-> <<>>]
  ELSE LET r == NewLogger(logConfigs[k])
       IN IF r.err # NoError THEN [mem |-> m, err |-> r.err, calls |-> r.ctor]
          ELSE LET rest == ConfigLoop(AppendSlice(m, r.logger), logConfigs, k + 1)
               IN [rest EXCEPT !.calls = r.ctor \o @]

\* A stack frame, and the stack as writeMessage finds it when the emission
\* function `fn`, called from `site`, has called it.
Frame(file, func, line) == [file |-> file, func |-> func, line |-> line]

\* The line of each emission function's call of writeMessage.
CallLine(fn) ==
  CASE fn = "log.Infof" -> 65
    [] fn = "log.Warnf" -> 72
    [] fn = "log.Errorf" -> 79
    [] fn = "log.Fatalf" -> 87

StackOf(fn, site) ==
  <<Frame("log.go", "log.writeMessage", 92), Frame("log.go", fn, CallLine(fn)), site>>

\* callerInfo(skip): the location of the frame `skip` levels above writeMessage.
callerInfo(skip, stack) == stack[skip + 1]

\* stackTraces(): the stacks of all running goroutines, never empty since the
\* calling goroutine is one of them.
stackTraces == <<"goroutine 1 [running]:", "log.Fatalf">>

\* io.WriteString(w, s): the write succeeds unless w is one of the
\* destinations that are failing during this call.
WriteString(w, s, failing) ==
  [call |-> "WriteString", w |-> w, data |-> s, ok |-> w \notin failing]

\* The call logger.Writer(sev) as the logger sees it.
AskWriter(logger, sev) ==
  [call |-> "Writer", w |-> Writer(logger, sev), data |-> <<sev>>, ok |-> TRUE]

\* A variant of writeMessage that writes no stack traces.
writeMessageNoStacks(logger, callDepth, sev, format, args, env) ==
  LET loc == callerInfo(callDepth + 1, env.stack)
      w == Writer(logger, sev)
      text == FormatMessage(logger, sev, loc.file, loc.func, loc.line, format, args)
  IN IF logger = NilLogger
     THEN [calls |-> <<>>, message |-> env.message, panic |-> TRUE]
     ELSE IF w # Nil
     THEN [calls |-> <<AskWriter(logger, sev), WriteString(w, text, env.failing)>>,
           message |-> text, panic |-> FALSE]
     ELSE [calls |-> <<AskWriter(logger, sev)>>, message |-> env.message, panic |-> FALSE]

\* A variant of writeMessage that does not test the writer for nil.
writeMessageNoNilCheck(logger, callDepth, sev, format, args, env) ==
  LET loc == callerInfo(callDepth + 1, env.stack)
      w == Writer(logger, sev)
      text == FormatMessage(logger, sev, loc.file, loc.func, loc.line, format, args)
  IN IF logger = NilLogger
     THEN [calls |-> <<>>, message |-> env.message, panic |-> TRUE]
     ELSE [calls |-> <<AskWriter(logger, sev), WriteString(w, text, env.failing)>>
                       \o (IF sev = SeverityFatal
                           THEN <<WriteString(w, stackTraces, env.failing)>>
                           ELSE <<>>),
           message |-> text, panic |-> FALSE]

\* writeMessage. env holds what it reads beside its parameters: the stack,
\* the failing destinations and the package variable `message`. The result
\* holds the calls it made, `message` as it leaves it, and whether it
\* panicked (a method call on a nil Logger).
writeMessage(logger, callDepth, sev, format, args, env) ==
  LET loc == callerInfo(callDepth + 1, env.stack)
      w == Writer(logger, sev)
      text == FormatMessage(logger, sev, loc.file, loc.func, loc.line, format, args)
  IN IF logger = NilLogger
     THEN [calls |-> <<>>, message |-> env.message, panic |-> TRUE]
     ELSE IF w # Nil
     THEN [calls |-> <<AskWriter(logger, sev), WriteString(w, text, env.failing)>>
                       \o (IF sev = SeverityFatal
                           THEN <<WriteString(w, stackTraces, env.failing)>>
                           ELSE <<>>),
           message |-> text, panic |-> FALSE]
     ELSE [calls |-> <<AskWriter(logger, sev)>>, message |-> env.message, panic |-> FALSE]

\* The calls of one iteration, each marked with the registry position `at`
\* of the logger the iteration is about.
At(cs, at) == [k \in 1..Len(cs) |-> [at |-> at] @@ cs[k]]

\* A variant of the range loop that runs one iteration too many: it indexes
\* the slice at its length, which panics.
RECURSIVE RangeLoggersOffByOne(_, _, _, _, _, _)
RangeLoggersOffByOne(reg, i, sev, format, args, env) ==
  IF i > Len(reg) THEN [calls |-> <<>>, message |-> env.message, panic |-> TRUE]
  ELSE LET r == writeMessage(reg[i], 1, sev, format, <<args>>, env)
       IN IF r.panic THEN [r EXCEPT !.calls = At(@, i)]
          ELSE LET rest == RangeLoggersOffByOne(reg, i + 1, sev, format, args,
                                                [env EXCEPT !.message = r.message])
               IN [rest EXCEPT !.calls = At(r.calls, i) \o @]

\* A variant of the range loop that returns at the first failed write.
RECURSIVE RangeLoggersStopOnError(_, _, _, _, _, _)
RangeLoggersStopOnError(reg, i, sev, format, args, env) ==
  IF i > Len(reg) THEN [calls |-> <<>>, message |-> env.message, panic |-> FALSE]
  ELSE LET r == writeMessage(reg[i], 1, sev, format, <<args>>, env)
       IN IF r.panic \/ \E k \in 1..Len(r.calls) : ~r.calls[k].ok
          THEN [r EXCEPT !.calls = At(@, i)]
          ELSE LET rest == RangeLoggersStopOnError(reg, i + 1, sev, format, args,
                                                   [env EXCEPT !.message = r.message])
               IN [rest EXCEPT !.calls = At(r.calls, i) \o @]

\* for _, logger := range loggers { writeMessage(logger, 1, sev, format, args) }
\* from position i on. The variadic `args` of the emission function is passed
\* as ONE argument of writeMessage.
RECURSIVE RangeLoggers(_, _, _, _, _, _)
RangeLoggers(reg, i, sev, format, args, env) ==
  IF i > Len(reg) THEN [calls |-> <<>>, message |-> env.message, panic |-> FALSE]
  ELSE LET r == writeMessage(reg[i], 1, sev, format, <<args>>, env)
       IN IF r.panic THEN [r EXCEPT !.calls = At(@, i)]
          ELSE LET rest == RangeLoggers(reg, i + 1, sev, format, args,
                                        [env EXCEPT !.message = r.message])
               IN [rest EXCEPT !.calls = At(r.calls, i) \o @]

\* ------------------------------------------------------------------ inputs

\* Configurations handed to InitWithConfig: two that construct, one whose
\* constructor fails (no such severity), one of an unknown backend.
Configs ==
  { [Name |-> "console", Severity |-> <<"i", "n", "f", "o">>],
    [Name |-> "syslog", Severity |-> <<"E", "r", "r", "o", "r">>],
    [Name |-> "udplog", Severity |-> <<"T", "R", "A", "C", "E">>],
    [Name |-> "bogus", Severity |-> <<"I", "N", "F", "O">>] }

Sites == {Frame("main.go", "main.run", 10)}
Formats == {[format |-> "x=%d", args |-> <<5>>]}

SeqsUpTo(S, n) == UNION {[1..k -> S] : k \in 0..n}

\* The destinations a registry writes to, and the ways its writes can fail
\* during one call: none fails, or the writes to one destination fail.
DestsOf(reg) == {reg[i].writer[s] : i \in 1..Len(reg), s \in AllSeverities} \ {Nil}
Failures(reg) == {{}} \cup {{d} : d \in DestsOf(reg)}

\* Every way of writing the name n in upper and lower case letters.
CaseVariants(n) ==
  {[i \in 1..Len(n) |-> IF f[i] THEN ToLowerRune(n[i]) ELSE n[i]] :
     f \in [1..Len(n) -> BOOLEAN]}

\* Strings handed to severityFromString: the names in every letter case, and
\* strings that are no severity name.
SeverityInputs ==
  UNION {CaseVariants(severityNames[k]) : k \in 1..Len(severityNames)}
    \cup { <<>>, <<"T", "R", "A", "C", "E">>, <<"t", "r", "a", "c", "e">>,
           <<"F", "A", "T", "A", "L">>, <<"W", "A", "R", "N", "I", "N", "G">>,
           <<"I", "N", "F">>, <<"I", "N", "F", "O", " ">>, <<"1">> }

\* Configurations handed to NewLogger directly.
CtorNames == {"console", "syslog", "udplog", "bogus", "Console", "udp", ""}
CtorSeverities ==
  { <<"D", "E", "B", "U", "G">>, <<"d", "e", "b", "u", "g">>, <<"I", "N", "F", "O">>,
    <<"i", "n", "F", "o">>, <<"w", "a", "r", "n">>, <<"E", "r", "r", "o", "r">>,
    <<"T", "R", "A", "C", "E">>, <<"F", "A", "T", "A", "L">>, <<>> }

\* The goroutines that call the package concurrently.
Goroutines == {1, 2}

\* A goroutine's record while it runs no call.
NoCall ==
  [fn |-> "none", l |-> <<>>, k |-> 0, s |-> [ptr |-> 0, len |-> 0, cap |-> 0],
   pend |-> {}, sev |-> 0, ptr |-> 0, len |-> 0, i |-> 0, cur |-> NilLogger,
   seen |-> <<>>, wrote |-> <<>>, fin |-> <<>>]

\* ----------------------------------------------------------------- actions

Start ==
  /\ loggers = [ptr |-> 0, len |-> 0, cap |-> 0]
  /\ heap = <<>>
  /\ message = <<>>
  /\ exit = "running"
  /\ op = [name |-> "none"]
  /\ ret = NoError
  /\ pre = <<>>
  /\ calls = <<>>
  /\ pc = [g \in Goroutines |-> "idle"]
  /\ lc = [g \in Goroutines |-> NoCall]
  /\ inits = 0

\* Init(l ...Logger)
Init(l) ==
  /\ exit = "running"
  /\ loggers.len + Len(l) <= MaxLoggers
  /\ LET m == InitLoop([hdr |-> loggers, heap |-> heap], l, 1)
     IN loggers' = m.hdr /\ heap' = m.heap
  /\ op' = [name |-> "Init", l |-> l]
  /\ ret' = NoError
  /\ pre' = Registry
  /\ calls' = <<>>
  /\ UNCHANGED <<message, exit>>
  /\ UNCHANGED concVars

\* InitWithConfig(logConfigs []LogConfig) error
InitWithConfig(logConfigs) ==
  /\ exit = "running"
  /\ loggers.len + Len(logConfigs) <= MaxLoggers
  /\ LET r == ConfigLoop([hdr |-> loggers, heap |-> heap], logConfigs, 1)
     IN /\ loggers' = r.mem.hdr
        /\ heap' = r.mem.heap
        /\ ret' = r.err
        /\ calls' = r.calls
  /\ op' = [name |-> "InitWithConfig", logConfigs |-> logConfigs]
  /\ pre' = Registry
  /\ UNCHANGED <<message, exit>>
  /\ UNCHANGED concVars

\* The body the four emission functions share: the range loop at severity
\* sev; then the function returns. A panic in the loop ends the process.
Emit(fn, sev, format, args, site, failing) ==
  /\ exit = "running"
  /\ LET r == RangeLoggers(Registry, 1, sev, format, args,
                           [stack |-> StackOf(fn, site), failing |-> failing,
                            message |-> message])
     IN /\ calls' = r.calls
        /\ message' = r.message
        /\ exit' = IF r.panic THEN "panic" ELSE exit
  /\ op' = [name |-> fn, sev |-> sev, format |-> format, args |-> args,
            site |-> site, failing |-> failing]
  /\ ret' = NoError
  /\ pre' = Registry
  /\ UNCHANGED <<loggers, heap>>
  /\ UNCHANGED concVars

Infof(format, args, site, failing) == Emit("log.Infof", SeverityInfo, format, args, site, failing)
Warnf(format, args, site, failing) == Emit("log.Warnf", SeverityWarn, format, args, site, failing)
Errorf(format, args, site, failing) == Emit("log.Errorf", SeverityError, format, args, site, failing)
Fatalf(format, args, site, failing) == Emit("log.Fatalf", SeverityFatal, format, args, site, failing)

\* A direct call of NewLogger on the configuration drawn at the start.
NewLoggerCall ==
  /\ op.name = "NewLogger?"
  /\ LET r == NewLogger(op.config)
     IN /\ ret' = [logger |-> r.logger, err |-> r.err]
        /\ calls' = r.ctor
  /\ op' = [op EXCEPT !.name = "NewLogger"]
  /\ UNCHANGED <<loggers, heap, message, exit, pre>>
  /\ UNCHANGED concVars

\* s.String() on the severity drawn at the start; the name it returns is
\* then handed to severityFromString.
StringCall ==
  /\ op.name = "String?"
  /\ LET r == SeverityString(op.origin)
     IN IF r.panic
        THEN /\ exit' = "panic"
             /\ op' = [op EXCEPT !.name = "String"]
             /\ ret' = r.str
        ELSE /\ exit' = exit
             /\ op' = [op EXCEPT !.name = "severityFromString?", !.s = r.str]
             /\ ret' = r.str
  /\ UNCHANGED <<loggers, heap, message, pre, calls>>
  /\ UNCHANGED concVars

\* severityFromString on the pending string.
ParseCall ==
  /\ op.name = "severityFromString?"
  /\ exit = "running"
  /\ ret' = severityFromString(op.s)
  /\ op' = [op EXCEPT !.name = "severityFromString"]
  /\ UNCHANGED <<loggers, heap, message, exit, pre, calls>>
  /\ UNCHANGED concVars

Next ==
  \/ \E l \in SeqsUpTo(UserLoggers, MaxLoggers) : Init(l)
  \/ \E cs \in SeqsUpTo(Configs, MaxConfigs) : InitWithConfig(cs)
  \/ \E f \in Formats, site \in Sites, failing \in Failures(Registry) :
       Infof(f.format, f.args, site, failing)
  \/ \E f \in Formats, site \in Sites, failing \in Failures(Registry) :
       Warnf(f.format, f.args, site, failing)
  \/ \E f \in Formats, site \in Sites, failing \in Failures(Registry) :
       Errorf(f.format, f.args, site, failing)
  \/ \E f \in Formats, site \in Sites, failing \in Failures(Registry) :
       Fatalf(f.format, f.args, site, failing)

vars == <<loggers, heap, message, exit, op, ret, pre, calls, pc, lc, inits>>

Spec == Start /\ [][Next]_vars

\* -------------------------------------------------------------- goroutines
\* The same functions run by goroutines that share `loggers` and `message`
\* with no synchronisation: each access of shared memory is a step of its
\* own. The loop of an emission function reads the slice header a word at a
\* time; append stores it a word at a time, in the order the gc compiler
\* emits for s = append(s, x): capacity and address, then length, then the
\* element (the element may also land first). A Logger value is read and
\* written whole, and append reads the header whole: the races modelled are
\* some of those the build can produce, not all.

Running(g) == exit = "running" /\ pc[g] \notin {"idle", "done"}

\* A goroutine calls Init(logger).
GoInit(g, l) ==
  /\ exit = "running"
  /\ pc[g] \in {"idle", "done"}
  /\ inits < MaxConcInits
  /\ inits' = inits + 1
  /\ pc' = [pc EXCEPT ![g] = "init_load"]
  /\ lc' = [lc EXCEPT ![g] = [NoCall EXCEPT !.fn = "Init", !.l = l, !.k = 1]]
  /\ UNCHANGED <<loggers, heap, message, exit>>
  /\ UNCHANGED seqVars

\* Init, the head of the loop and the first half of append(loggers, logger):
\* read the slice, and when it is full allocate the larger array and copy.
\* The stores into `loggers` and into the array are still to come.
InitLoad(g) ==
  /\ Running(g)
  /\ pc[g] = "init_load"
  /\ IF lc[g].k > Len(lc[g].l)
     THEN /\ pc' = [pc EXCEPT ![g] = "done"]
          /\ lc' = [lc EXCEPT ![g].fin = Registry]
          /\ heap' = heap
     ELSE LET s == loggers
              n == GrowCap(s.cap)
              arr == [i \in 1..n |-> IF i <= s.len THEN SlotOf(heap, s.ptr, i)
                                     ELSE NilLogger]
          IN IF s.len < s.cap
             THEN /\ heap' = heap
                  /\ lc' = [lc EXCEPT ![g].s = s, ![g].pend = {"len", "elem"}]
                  /\ pc' = [pc EXCEPT ![g] = "init_store"]
             ELSE /\ heap' = Append(heap, arr)
                  /\ lc' = [lc EXCEPT ![g].s = [ptr |-> Len(heap) + 1, len |-> s.len,
                                                cap |-> n],
                                      ![g].pend = {"ptr", "len", "elem"}]
                  /\ pc' = [pc EXCEPT ![g] = "init_store"]
  /\ UNCHANGED <<loggers, message, exit, inits>>
  /\ UNCHANGED seqVars

\* Init, the second half of the append: the stores of the new array's
\* address and capacity, of the new length, and of the element. The address
\* is stored before the length; the length and the element in either order.
InitStore(g, st) ==
  /\ Running(g)
  /\ pc[g] = "init_store"
  /\ st \in lc[g].pend
  /\ st = "len" => "ptr" \notin lc[g].pend
  /\ LET s == lc[g].s
     IN CASE st = "ptr" ->
               /\ loggers' = [loggers EXCEPT !.ptr = s.ptr, !.cap = s.cap]
               /\ heap' = heap
          [] st = "len" ->
               /\ loggers' = [loggers EXCEPT !.len = s.len + 1]
               /\ heap' = heap
          [] st = "elem" ->
               /\ loggers' = loggers
               /\ heap' = [heap EXCEPT ![s.ptr][s.len + 1] = lc[g].l[lc[g].k]]
  /\ IF lc[g].pend = {st}
     THEN /\ lc' = [lc EXCEPT ![g].pend = {}, ![g].k = @ + 1]
          /\ pc' = [pc EXCEPT ![g] = "init_load"]
     ELSE /\ lc' = [lc EXCEPT ![g].pend = @ \ {st}]
          /\ pc' = pc
  /\ UNCHANGED <<message, exit, inits>>
  /\ UNCHANGED seqVars

\* A goroutine calls the emission function fn.
GoEmit(g, fn, sev) ==
  /\ exit = "running"
  /\ pc[g] \in {"idle", "done"}
  /\ pc' = [pc EXCEPT ![g] = "emit_load"]
  /\ lc' = [lc EXCEPT ![g] = [NoCall EXCEPT !.fn = fn, !.sev = sev,
                                            !.pend = {"ptr", "len"}]]
  /\ UNCHANGED <<loggers, heap, message, exit, inits>>
  /\ UNCHANGED seqVars

GoInfof(g) == GoEmit(g, "log.Infof", SeverityInfo)

\* range loggers: the loop reads the slice once, its address and its length
\* in two loads, in either order.
EmitLoad(g, ld) ==
  /\ Running(g)
  /\ pc[g] = "emit_load"
  /\ ld \in lc[g].pend
  /\ lc' = [lc EXCEPT ![g].pend = @ \ {ld},
                      ![g].ptr = IF ld = "ptr" THEN loggers.ptr ELSE @,
                      ![g].len = IF ld = "len" THEN loggers.len ELSE @,
                      ![g].i = 1]
  /\ pc' = [pc EXCEPT ![g] = IF lc[g].pend = {ld} THEN "emit_next" ELSE @]
  /\ UNCHANGED <<loggers, heap, message, exit, inits>>
  /\ UNCHANGED seqVars

\* What a read of slot i of the array at ptr can yield: the slot, or, outside
\* the array, whatever the memory there holds.
SlotValues(ptr, i) ==
  IF InBounds(heap, ptr, i) THEN {heap[ptr][i]} ELSE {NilLogger} \cup UserLoggers

\* The next iteration of the loop, into writeMessage as far as
\* logger.Writer(sev): a nil Logger panics; a nil writer ends the iteration.
EmitNext(g, cur) ==
  /\ Running(g)
  /\ pc[g] = "emit_next"
  /\ IF lc[g].i > lc[g].len
     THEN /\ cur = NilLogger
          /\ pc' = [pc EXCEPT ![g] = "done"]
          /\ lc' = [lc EXCEPT ![g].fin = Registry]
          /\ exit' = exit
     ELSE /\ cur \in SlotValues(lc[g].ptr, lc[g].i)
          /\ exit' = IF cur = NilLogger THEN "panic" ELSE exit
          /\ IF cur # NilLogger /\ Writer(cur, lc[g].sev) # Nil
             THEN /\ pc' = [pc EXCEPT ![g] = "emit_format"]
                  /\ lc' = [lc EXCEPT ![g].cur = cur, ![g].seen = Append(@, cur)]
             ELSE /\ pc' = pc
                  /\ lc' = [lc EXCEPT ![g].cur = cur, ![g].seen = Append(@, cur),
                                      ![g].i = IF cur = NilLogger THEN @ ELSE @ + 1]
  /\ UNCHANGED <<loggers, heap, message, inits>>
  /\ UNCHANGED seqVars

\* writeMessage: message = logger.FormatMessage(...), a store into the
\* package variable.
EmitFormat(g) ==
  /\ Running(g)
  /\ pc[g] = "emit_format"
  /\ LET loc == callerInfo(2, StackOf(lc[g].fn, Frame("main.go", "main.run", 10 + g)))
     IN message' = FormatMessage(lc[g].cur, lc[g].sev, loc.file, loc.func, loc.line,
                                 "x=%d", <<<<5>>>>)
  /\ pc' = [pc EXCEPT ![g] = "emit_write"]
  /\ UNCHANGED <<loggers, heap, exit, lc, inits>>
  /\ UNCHANGED seqVars

\* writeMessage: io.WriteString(w, message), which reads the package
\* variable; then the loop goes on.
EmitWrite(g) ==
  /\ Running(g)
  /\ pc[g] = "emit_write"
  /\ lc' = [lc EXCEPT ![g].wrote =
                        Append(@, [w |-> Writer(lc[g].cur, lc[g].sev), data |-> message]),
                      ![g].i = @ + 1]
  /\ pc' = [pc EXCEPT ![g] = "emit_next"]
  /\ UNCHANGED <<loggers, heap, message, exit, inits>>
  /\ UNCHANGED seqVars

NextConc ==
  \/ \E g \in Goroutines, x \in UserLoggers : GoInit(g, <<x>>)
  \/ \E g \in Goroutines : InitLoad(g)
  \/ \E g \in Goroutines, st \in {"ptr", "len", "elem"} : InitStore(g, st)
  \/ \E g \in Goroutines : GoInfof(g)
  \/ \E g \in Goroutines, ld \in {"ptr", "len"} : EmitLoad(g, ld)
  \/ \E g \in Goroutines, cur \in {NilLogger} \cup UserLoggers : EmitNext(g, cur)
  \/ \E g \in Goroutines : EmitFormat(g)
  \/ \E g \in Goroutines : EmitWrite(g)

SpecConc == Start /\ [][NextConc]_vars

\* NewLogger alone, on one configuration drawn from CtorNames x CtorSeverities.
StartNewLogger ==
  /\ loggers = [ptr |-> 0, len |-> 0, cap |-> 0]
  /\ heap = <<>>
  /\ message = <<>>
  /\ exit = "running"
  /\ op \in {[name |-> "NewLogger?", config |-> [Name |-> n, Severity |-> s]] :
               n \in CtorNames, s \in CtorSeverities}
  /\ ret = NoError
  /\ pre = <<>>
  /\ calls = <<>>
  /\ pc = [g \in Goroutines |-> "idle"]
  /\ lc = [g \in Goroutines |-> NoCall]
  /\ inits = 0

SpecNewLogger == StartNewLogger /\ [][NewLoggerCall]_vars

\* The severity conversions alone: severityFromString on a drawn string, and
\* String on a drawn severity followed by severityFromString on its result.
StartSeverity ==
  /\ loggers = [ptr |-> 0, len |-> 0, cap |-> 0]
  /\ heap = <<>>
  /\ message = <<>>
  /\ exit = "running"
  /\ op \in {[name |-> "severityFromString?", s |-> x, origin |-> -1] :
               x \in SeverityInputs}
          \cup {[name |-> "String?", s |-> <<>>, origin |-> v] : v \in AllSeverities}
  /\ ret = NoError
  /\ pre = <<>>
  /\ calls = <<>>
  /\ pc = [g \in Goroutines |-> "idle"]
  /\ lc = [g \in Goroutines |-> NoCall]
  /\ inits = 0

NextSeverity == StringCall \/ ParseCall

SpecSeverity == StartSeverity /\ [][NextSeverity]_vars

\* ------------------------------------------------------------------ claims

IsPrefix(s, u) == Len(s) <= Len(u) /\ \A i \in 1..Len(s) : s[i] = u[i]

Emissions == {"log.Infof", "log.Warnf", "log.Errorf", "log.Fatalf"}

\* The severity each emission function logs at.
SeverityOf(fn) ==
  CASE fn = "log.Infof" -> SeverityInfo
    [] fn = "log.Warnf" -> SeverityWarn
    [] fn = "log.Errorf" -> SeverityError
    [] fn = "log.Fatalf" -> SeverityFatal

\* What the most recent call did for the registry entry at position i.
AskedAt(i) == SelectSeq(calls, LAMBDA c : c.call = "Writer" /\ c.at = i)
WritesAt(i) == SelectSeq(calls, LAMBDA c : c.call = "WriteString" /\ c.at = i)

\* s is the text a logger formats for the most recent emission call.
IsMessageOf(s, logger) ==
  /\ Len(s) = 7
  /\ s[1] = logger.id
  /\ s[2] = SeverityOf(op.name)
  /\ s[3] = op.site.file /\ s[4] = op.site.func /\ s[5] = op.site.line
  /\ s[6] = op.format

\* C1 (as amended): when Fatalf has run, every registry entry whose Writer
\* for FATAL is non-nil was written the formatted message and then the
\* non-empty stack traces, both on that writer; an entry whose Writer is nil
\* was written nothing; and the process has not exited before these writes.
C1_FatalWritesMessageThenStacks ==
  op.name = "log.Fatalf" =>
    /\ exit = "running"
    /\ \A i \in 1..Len(Registry) :
         LET w == Writer(Registry[i], SeverityFatal)
             ws == WritesAt(i)
         IN IF w = Nil THEN ws = <<>>
            ELSE /\ Len(ws) = 2
                 /\ ws[1].w = w /\ IsMessageOf(ws[1].data, Registry[i])
                 /\ ws[2].w = w /\ ws[2].data = stackTraces /\ Len(ws[2].data) > 0

C1_Witness ==
  /\ op.name = "log.Fatalf"
  /\ Len(Registry) >= 2
  /\ \E i \in 1..Len(Registry) : Writer(Registry[i], SeverityFatal) = Nil
  /\ \E i \in 1..Len(Registry) : Len(WritesAt(i)) = 2

\* C1 as stated: when Fatalf has run, EVERY registry entry was written the
\* formatted message and then the stack traces.
C1_EveryBackendReceivesFatal ==
  op.name = "log.Fatalf" =>
    \A i \in 1..Len(Registry) :
      LET ws == WritesAt(i)
      IN /\ Len(ws) = 2
         /\ IsMessageOf(ws[1].data, Registry[i])
         /\ ws[2].data = stackTraces /\ Len(ws[2].data) > 0
         /\ ws[1].w = ws[2].w

\* C2 as stated: when Fatalf has run to its end the process has exited with
\* status 255; Fatalf never returns with the process running.
C2_FatalfExits255 == op.name = "log.Fatalf" => exit = "exit 255"

\* C3: one call of Infof, Warnf or Errorf writes exactly one formatted message
\* to each registry entry whose Writer for that severity is non-nil, on that
\* writer, and nothing to an entry whose Writer is nil.
C3_OneMessagePerAcceptingBackend ==
  op.name \in {"log.Infof", "log.Warnf", "log.Errorf"} =>
    /\ \A k \in 1..Len(calls) : calls[k].at \in 1..Len(Registry)
    /\ \A i \in 1..Len(Registry) :
         LET w == Writer(Registry[i], SeverityOf(op.name))
             ws == WritesAt(i)
         IN IF w = Nil THEN ws = <<>>
            ELSE Len(ws) = 1 /\ ws[1].w = w /\ IsMessageOf(ws[1].data, Registry[i])

C3_Witness ==
  /\ op.name = "log.Infof"
  /\ Len(Registry) >= 2
  /\ \E i \in 1..Len(Registry) : Writer(Registry[i], SeverityInfo) = Nil
  /\ \E i \in 1..Len(Registry) : Len(WritesAt(i)) = 1

\* The first configuration of cs that NewLogger rejects is the k-th.
FirstFailure(cs, k) ==
  /\ k \in 1..Len(cs)
  /\ NewLogger(cs[k]).err # NoError
  /\ \A j \in 1..(k - 1) : NewLogger(cs[j]).err = NoError

\* C4: when the k-th configuration is the first that fails, InitWithConfig
\* returns that error, the registry is the earlier registry followed by the
\* k-1 backends built before it, and no constructor ran for a later
\* configuration; an emission call asks every registry entry for its writer.
C4_PartialInitOnFailure ==
  /\ op.name = "InitWithConfig" =>
       \A k \in 1..Len(op.logConfigs) :
         FirstFailure(op.logConfigs, k) =>
           /\ ret = NewLogger(op.logConfigs[k]).err
           /\ Registry = pre \o [j \in 1..(k - 1) |-> NewLogger(op.logConfigs[j]).logger]
           /\ Len(calls) <= k
           /\ \A j \in 1..Len(calls) : calls[j].config = op.logConfigs[j]
  /\ op.name \in Emissions =>
       \A i \in 1..Len(Registry) : Len(AskedAt(i)) = 1

C4_Witness ==
  /\ op.name = "InitWithConfig"
  /\ Len(op.logConfigs) = 2
  /\ FirstFailure(op.logConfigs, 2)
  /\ Len(Registry) = Len(pre) + 1

\* C5: an emission call on the empty registry makes no call on any
\* collaborator (no write) and does not panic.
C5_EmptyRegistryNoOp ==
  (op.name \in Emissions /\ pre = <<>>) => (calls = <<>> /\ exit = "running")

C5_Witness == op.name = "log.Fatalf" /\ pre = <<>> /\ Registry = <<>>

\* C6: every step leaves the registry a prefix of the registry after it.
C6_AppendOnly == [][IsPrefix(Registry, Registry')]_vars

C6_Witness ==
  /\ op.name \in {"Init", "InitWithConfig"}
  /\ Len(pre) >= 1
  /\ Len(Registry) > Len(pre)

\* C10: when a write of an emission call failed, the call still returned
\* normally, and every registry entry after the failing one was asked for its
\* writer once and written to as the severity requires.
C10_FailedWriteNotPropagated ==
  op.name \in Emissions =>
    \A k \in 1..Len(calls) :
      (calls[k].call = "WriteString" /\ ~calls[k].ok) =>
        /\ exit = "running"
        /\ ret = NoError
        /\ \A i \in (calls[k].at + 1)..Len(Registry) :
             /\ Len(AskedAt(i)) = 1
             /\ Len(WritesAt(i)) =
                  IF Writer(Registry[i], SeverityOf(op.name)) = Nil THEN 0
                  ELSE IF op.name = "log.Fatalf" THEN 2 ELSE 1

C10_Witness ==
  /\ op.name \in Emissions
  /\ \E k \in 1..Len(calls) :
       /\ calls[k].call = "WriteString" /\ ~calls[k].ok
       /\ \E j \in (k + 1)..Len(calls) :
            calls[j].call = "WriteString" /\ calls[j].ok /\ calls[j].at > calls[k].at

\* s contains sub as a run of consecutive fragments.
Contains(s, sub) ==
  \E i \in 0..(Len(s) - Len(sub)) : SubSeq(s, i + 1, i + Len(sub)) = sub

\* C7: NewLogger invokes exactly the constructor its Name selects, with the
\* configuration, and returns that constructor's result; for any other Name
\* it invokes none and returns no logger and an error whose text holds the
\* rendered configuration, with the Name and the Severity as given.
C7_NewLoggerDispatch ==
  op.name = "NewLogger" =>
    LET c == op.config
        Built(ctor, r) ==
          /\ calls = <<[call |-> ctor, config |-> c]>>
          /\ ret = [logger |-> r.logger, err |-> r.err]
    IN CASE c.Name = "console" -> Built("NewConsoleLogger", NewConsoleLogger(c))
         [] c.Name = "syslog" -> Built("NewSysLogger", NewSysLogger(c))
         [] c.Name = "udplog" -> Built("NewUDPLogger", NewUDPLogger(c))
         [] OTHER ->
              /\ calls = <<>>
              /\ ret.logger = NilLogger
              /\ ret.err # NoError
              /\ Contains(ret.err, <<"LogConfig(Name=", c.Name, ", Severity=">>
                                     \o c.Severity \o <<")">>)

C7_Witness ==
  /\ op.name = "NewLogger"
  /\ op.config.Name = "udplog"
  /\ ret.err = NoError
  /\ ret.logger.id = "udplog"

\* a and b are the same string up to the case of their letters.
SameIgnoringCase(a, b) ==
  /\ Len(a) = Len(b)
  /\ \A i \in 1..Len(a) : ToLowerRune(a[i]) = ToLowerRune(b[i])

\* C8: severityFromString(s.String()) is s, without error, for each severity
\* severity.go defines; a name of the table written in any letter case parses
\* to the severity of that name; a string that is no name of the table in any
\* letter case gives -1 and an error.
C8_ParseRoundTripAnyCase ==
  op.name = "severityFromString" =>
    /\ op.origin \in DefinedSeverities => ret = [sev |-> op.origin, err |-> NoError]
    /\ \A idx \in 0..(Len(severityNames) - 1) :
         SameIgnoringCase(op.s, severityNames[idx + 1]) =>
           ret = [sev |-> idx, err |-> NoError]
    /\ (\A idx \in 1..Len(severityNames) : ~SameIgnoringCase(op.s, severityNames[idx])) =>
         (ret.sev = -1 /\ ret.err # NoError)

C8_Witness ==
  /\ op.name = "severityFromString"
  /\ op.s = <<"w", "A", "r", "n">>
  /\ ret = [sev |-> SeverityWarning, err |-> NoError]

\* C9 as stated: the Logger values an emission call's loop has taken from the
\* registry are all fully appended backends (none is the zero value of a
\* slot), and when the call finishes they are a prefix of the registry as it
\* stands then.
C9_ConsistentSnapshot ==
  \A g \in Goroutines :
    lc[g].fn \in Emissions =>
      /\ \A k \in 1..Len(lc[g].seen) : lc[g].seen[k] # NilLogger
      /\ pc[g] = "done" => IsPrefix(lc[g].seen, lc[g].fin)

====
